---------------------------- MODULE Spec2Model ----------------------------
(***************************************************************************)
(* Model of parse_tombstones (dumpstate/vm_traces/tombstones.py): the      *)
(* line scanner that segments a bug report into Tombstone records and      *)
(* decodes their fields and backtrace frames.                              *)
(*                                                                         *)
(* Text is modelled as a sequence of tokens.  A token stands for a maximal *)
(* piece of text of one kind: a run of whitespace (" "), a literal the     *)
(* patterns look for ("Timestamp:", "(", ")", "+", "#", "pc", ...), a run  *)
(* of digits, a run of hex digits, or any other run of non-blank text.     *)
(* bytes.startswith(lit) is then "the first token is lit", and the regular *)
(* expressions are evaluated token by token in the order re evaluates them.*)
(***************************************************************************)
EXTENDS Integers, Sequences, FiniteSets, TLC

(***************************************************************************)
(* Bounds of the explored inputs.                                          *)
(***************************************************************************)
MaxLines == 4
MaxBody == 2
MaxFn == 3

(***************************************************************************)
(* Tokens                                                                  *)
(***************************************************************************)
WS == " "
ANCHOR == "*** *** *** *** *** *** *** *** *** *** *** *** *** *** *** ***"
PFX == "01-02 03:04:05.678  1000  1234  1234 F DEBUG   :"
BADBYTE == "\\xff"
REPLCHAR == "\\ufffd"
\* a run of more digits than int() converts (sys.int_info.default_max_str_digits)
LONGDIGITS == "999...9 (4301 digits)"

\* bytes matched by \d+ , with the value int() gives them
DigitVal ==
  [t \in {"00", "01", "0", "5", "11", "2", "552", "1000", "10809", "10886"} |->
     CASE t = "00" -> 0
       [] t = "01" -> 1
       [] t = "0" -> 0
       [] t = "5" -> 5
       [] t = "11" -> 11
       [] t = "2" -> 2
       [] t = "552" -> 552
       [] t = "1000" -> 1000
       [] t = "10809" -> 10809
       [] t = "10886" -> 10886]

IsDigits(t) == t \in DOMAIN DigitVal \/ t = LONGDIGITS

\* bytes matched by [0-9a-fA-F]+
IsHex(t) == IsDigits(t) \/ t \in {"00000000001de20c", "1de20c", "abcdef12", "cafe"}

\* Python None where a str is expected
NoneStr == <<"None">>

\* Python None where a Tombstone (or the returned list) is expected
None == [is_none |-> TRUE]

(***************************************************************************)
(* bytes helpers                                                           *)
(***************************************************************************)
RECURSIVE LStrip(_)
LStrip(s) == IF s # <<>> /\ Head(s) = WS THEN LStrip(Tail(s)) ELSE s

RECURSIVE RStrip(_)
RStrip(s) ==
  IF s # <<>> /\ s[Len(s)] = WS THEN RStrip(SubSeq(s, 1, Len(s) - 1)) ELSE s

\* bytes.strip()
Strip(s) == RStrip(LStrip(s))

\* bytes.decode('utf-8', errors='replace')
Decode(s) == [i \in 1..Len(s) |-> IF s[i] = BADBYTE THEN REPLCHAR ELSE s[i]]

\* bytes.startswith(lit)
StartsWith(s, lit) == s # <<>> /\ Head(s) = lit

\* index of the first token equal to t at or after i, Len(s)+1 when none
RECURSIVE Find(_, _, _)
Find(s, t, i) ==
  IF i > Len(s) THEN Len(s) + 1
  ELSE IF s[i] = t THEN i ELSE Find(s, t, i + 1)

\* index of the last token equal to t, 0 when none
RECURSIVE RFind(_, _, _)
RFind(s, t, i) ==
  IF i < 1 THEN 0 ELSE IF s[i] = t THEN i ELSE RFind(s, t, i - 1)

\* index of the first non-blank token at or after i, Len(s)+1 when none
RECURSIVE SkipWs(_, _)
SkipWs(s, i) ==
  IF i > Len(s) THEN Len(s) + 1
  ELSE IF s[i] = WS THEN SkipWs(s, i + 1) ELSE i

\* index of the first blank token at or after i, Len(s)+1 when none
EndOfWord(s, i) == Find(s, WS, i)


(***************************************************************************)
(* The compiled patterns                                                   *)
(***************************************************************************)
\* tombstone_start_pattern.search(line_content): the literal anywhere
tombstone_start_pattern(s) == \E i \in 1..Len(s) : s[i] = ANCHOR

\* logcat_prefix_pattern.match(line_stripped): anchored at the start.
\* group(1) is what follows the prefix; the single optional blank \s? only
\* shortens a run of blanks that the caller strips anyway.
logcat_prefix_pattern(s) ==
  IF StartsWith(s, PFX)
  THEN [matched |-> TRUE, g1 |-> Tail(s)]
  ELSE [matched |-> FALSE, g1 |-> <<>>]

\* pid_tid_pattern.match(line_content):
\*   pid: (\d+), tid: (\d+), name: (.+?)  >>> (.+?) <<<
pid_tid_pattern(s) ==
  LET a == Find(s, "  >>> ", 7)
      b == Find(s, " <<<", a + 2)
  IN IF /\ Len(s) >= 9
        /\ s[1] = "pid: " /\ IsDigits(s[2])
        /\ s[3] = ", tid: " /\ IsDigits(s[4])
        /\ s[5] = ", name: "
        /\ a <= Len(s) /\ b <= Len(s)
     THEN [matched |-> TRUE, g1 |-> s[2], g2 |-> s[4],
           g3 |-> SubSeq(s, 6, a - 1), g4 |-> SubSeq(s, a + 1, b - 1)]
     ELSE [matched |-> FALSE, g1 |-> "", g2 |-> "", g3 |-> <<>>, g4 |-> <<>>]

\* signal_pattern.match(line_content):
\*   signal \d+ \((.+?)\), code \d+ \((.+?)\), fault addr (0x[0-9a-fA-F]+)
\* the lazy groups end at the first separator after which the rest matches
signal_ends(s) ==
  {ab \in (5..Len(s)) \X (9..Len(s)) :
     /\ s[ab[1]] = "), code "
     /\ ab[1] + 4 <= ab[2]
     /\ IsDigits(s[ab[1] + 1])
     /\ s[ab[1] + 2] = " ("
     /\ s[ab[2]] = "), fault addr "
     /\ ab[2] + 2 <= Len(s)
     /\ s[ab[2] + 1] = "0x"
     /\ IsHex(s[ab[2] + 2])}

signal_pattern(s) ==
  IF /\ Len(s) >= 11
     /\ s[1] = "signal " /\ IsDigits(s[2]) /\ s[3] = " ("
     /\ signal_ends(s) # {}
  THEN LET ab == CHOOSE x \in signal_ends(s) :
                   \A y \in signal_ends(s) :
                      x[1] < y[1] \/ (x[1] = y[1] /\ x[2] <= y[2])
       IN [matched |-> TRUE,
           g1 |-> SubSeq(s, 4, ab[1] - 1),
           g2 |-> SubSeq(s, ab[1] + 3, ab[2] - 1),
           g3 |-> SubSeq(s, ab[2] + 1, ab[2] + 2)]
  ELSE [matched |-> FALSE, g1 |-> <<>>, g2 |-> <<>>, g3 |-> <<>>]

\* The mandatory head of backtrace_pattern tried at token i:
\*   #(\d+)\s+pc\s+([0-9a-fA-F]+)\s+([^\s]+)
backtrace_head(s, i) ==
  LET j == SkipWs(s, i + 2)
      k == SkipWs(s, j + 1)
      l == SkipWs(s, k + 1)
  IN /\ s[i] = "#"
     /\ i + 2 <= Len(s) /\ IsDigits(s[i + 1]) /\ s[i + 2] = WS
     /\ j + 1 <= Len(s) /\ s[j] = "pc" /\ s[j + 1] = WS
     /\ k + 1 <= Len(s) /\ IsHex(s[k]) /\ s[k + 1] = WS
     /\ l <= Len(s)

\* The optional function group (?:\s+\((.*?)\))? tried at token m: blanks,
\* an opening parenthesis, then lazily up to the first closing parenthesis.
function_group(s, m) ==
  LET n == SkipWs(s, m)
      p == Find(s, ")", n + 1)
  IN IF m <= Len(s) /\ s[m] = WS /\ n <= Len(s) /\ s[n] = "(" /\ p <= Len(s)
     THEN [matched |-> TRUE, g |-> SubSeq(s, n + 1, p - 1), end |-> p + 1]
     ELSE [matched |-> FALSE, g |-> <<>>, end |-> m]

\* The optional build-id group (?:\s+\(BuildId:\s+(.*?)\))? tried at token e
build_id_group(s, e) ==
  LET q == SkipWs(s, e)
      r == SkipWs(s, q + 2)
      t == Find(s, ")", r)
  IN IF /\ e <= Len(s) /\ s[e] = WS
        /\ q + 2 <= Len(s) /\ s[q] = "(" /\ s[q + 1] = "BuildId:"
        /\ s[q + 2] = WS
        /\ t <= Len(s)
     THEN [matched |-> TRUE, g |-> SubSeq(s, r, t - 1)]
     ELSE [matched |-> FALSE, g |-> <<>>]

\* backtrace_pattern.search(line_content): the leftmost position where the
\* head matches; each optional group is taken when it matches there.
backtrace_pattern(s) ==
  LET starts == {i \in 1..Len(s) : backtrace_head(s, i)}
  IN IF starts = {}
     THEN [matched |-> FALSE]
     ELSE LET i == CHOOSE x \in starts : \A y \in starts : x <= y
              j == SkipWs(s, i + 2)
              k == SkipWs(s, j + 1)
              l == SkipWs(s, k + 1)
              m == EndOfWord(s, l)
              f == function_group(s, m)
              b == build_id_group(s, f.end)
          IN [matched |-> TRUE,
              g1 |-> s[i + 1],
              g2 |-> <<s[k]>>,
              g3 |-> SubSeq(s, l, m - 1),
              has4 |-> f.matched, g4 |-> f.g,
              has5 |-> b.matched, g5 |-> b.g]

\* str.rsplit('+', 1)
rsplit_plus(s) ==
  LET p == RFind(s, "+", Len(s))
  IN IF p = 0 THEN <<s>>
     ELSE <<SubSeq(s, 1, p - 1), SubSeq(s, p + 1, Len(s))>>

\* int(bytes) succeeds: optional blanks, optional sign, one run of digits
\* that is not longer than the interpreter converts
int_ok(s) ==
  LET v == Strip(s)
  IN \/ Len(v) = 1 /\ v[1] \in DOMAIN DigitVal
     \/ Len(v) = 2 /\ v[1] \in {"+", "-"} /\ v[2] \in DOMAIN DigitVal

\* int(bytes), defined where int_ok
int(s) ==
  LET v == Strip(s)
  IN IF Len(v) = 1 THEN DigitVal[v[1]]
     ELSE IF v[1] = "-" THEN 0 - DigitVal[v[2]] ELSE DigitVal[v[2]]

(***************************************************************************)
(* The dataclasses                                                         *)
(***************************************************************************)
\* Tombstone(): every field at its default.  obj is the identity of the
\* Python object (the number of the line that created it).
Tombstone(o) ==
  [obj |-> o,
   timestamp |-> <<>>, pid |-> 0, tid |-> 0, uid |-> 0,
   process_name |-> <<>>, thread_name |-> <<>>, cmdline |-> <<>>,
   build_fingerprint |-> <<>>, abi |-> <<>>,
   signal |-> <<>>, code |-> <<>>, fault_addr |-> <<>>,
   abort_message |-> <<>>,
   backtrace |-> <<>>]

\* BacktraceFrame(frame, pc, library, function, offset, build_id, raw_line)
BacktraceFrame(fr, pc_, lib, fn, off, bid, raw) ==
  [frame |-> fr, pc |-> pc_, library |-> lib, function |-> fn,
   offset |-> off, build_id |-> bid, raw_line |-> raw]

\* BacktraceFrame(frame=-1, pc="", library="", raw_line=...)
RawFrame(raw) == BacktraceFrame(-1, <<>>, <<>>, NoneStr, NoneStr, NoneStr, raw)

(***************************************************************************)
(* Input lines                                                             *)
(***************************************************************************)
L_anchor == <<ANCHOR>>
L_logcat_anchor == <<PFX, WS, ANCHOR>>
L_backtrace == <<"backtrace:">>
L_logcat_backtrace == <<PFX, WS, "backtrace:">>
L_stack == <<"stack:">>
L_stack_frame == <<"stack:", WS, "#", "00", WS, "pc", WS, "0", WS, "lib">>
L_frame ==
  <<WS, "#", "01", WS, "pc", WS, "1de20c", WS, "/system/lib64/libc.so", WS,
    "(", "abort", "+", "5", ")">>
L_frame_c4 ==
  <<"#", "00", WS, "pc", WS, "00000000001de20c", WS,
    "/system/lib64/libfoo.so", WS,
    "(", "foo::bar", "(", "int", ")", "+", "552", ")", WS,
    "(", "BuildId:", WS, "abcdef12", ")">>
L_frame_no_offset ==
  <<"#", "00", WS, "pc", WS, "00000000001de20c", WS,
    "/system/lib64/libfoo.so", WS, "(", "foo::bar", "(", ")", ")">>
L_cause == <<WS, "Cause: null pointer dereference", WS>>
L_logcat_cause == <<PFX, WS, "Cause: null pointer dereference">>
L_timestamp == <<"Timestamp:", WS, "2024-01-01", BADBYTE>>
L_logcat_timestamp == <<PFX, WS, "Timestamp:", WS, "2024-01-01">>
L_uid == <<"uid:", WS, "1000", ":", "5">>
L_uid_bad == <<"uid:", WS, "abc">>
L_uid_empty == <<"uid:">>
L_blank == <<WS>>
L_pid ==
  <<"pid: ", "10809", ", tid: ", "10886", ", name: ", "thumbThread1",
    "  >>> ", "com.package", " <<<">>
L_signal ==
  <<"signal ", "11", " (", "SIGSEGV", "), code ", "2", " (", "SEGV_ACCERR",
    "), fault addr ", "0x", "cafe">>
L_anchor_timestamp == <<"Timestamp:", WS, ANCHOR>>
L_pid_long ==
  <<"pid: ", "10809", ", tid: ", LONGDIGITS, ", name: ", "thumbThread1",
    "  >>> ", "com.package", " <<<">>
L_frame_long == <<"#", LONGDIGITS, WS, "pc", WS, "1de20c", WS, "/lib.so">>

CoreLines ==
  {L_anchor, L_logcat_anchor, L_backtrace, L_stack, L_frame, L_cause,
   L_logcat_cause, L_uid_bad}

AllLines ==
  CoreLines \cup
  {L_logcat_backtrace, L_stack_frame, L_frame_c4, L_frame_no_offset,
   L_timestamp, L_logcat_timestamp, L_uid, L_uid_empty, L_blank, L_pid,
   L_signal, L_anchor_timestamp, L_pid_long, L_frame_long}

SeqsUpTo(S, n) == UNION {[1..k -> S] : k \in 0..n}

\* every report of at most MaxLines core lines
CoreInputs == SeqsUpTo(CoreLines, MaxLines)

\* every record body of at most MaxBody lines, after each way to open a
\* record and its backtrace section
BodyPrefixes ==
  {<<L_anchor>>, <<L_anchor, L_backtrace>>,
   <<L_logcat_anchor>>, <<L_logcat_anchor, L_logcat_backtrace>>,
   <<L_anchor, L_anchor, L_backtrace>>}

BodyInputs == {p \o b : p \in BodyPrefixes, b \in SeqsUpTo(AllLines, MaxBody)}

\* function texts: the characters a function group is made of
FnChars == {"f", "(", ")", "+", "5"}

FrameLine(fn, bid) ==
  <<"#", "00", WS, "pc", WS, "1de20c", WS, "/lib.so", WS, "(">> \o fn \o <<")">>
    \o (IF bid THEN <<WS, "(", "BuildId:", WS, "abcdef12", ")">> ELSE <<>>)

\* one frame line with every function text of at most MaxFn characters
FrameInputs ==
  {<<L_anchor, L_backtrace, FrameLine(fn, bid)>> :
     fn \in SeqsUpTo(FnChars, MaxFn), bid \in BOOLEAN}

Inputs == CoreInputs \cup BodyInputs \cup FrameInputs

(***************************************************************************)
(* State                                                                   *)
(***************************************************************************)
VARIABLES
  lines,                    \* dumpstate_content.lines
  idx,                      \* position of the for loop: the next line
  pc,                       \* "scan", "done" (returned) or "error" (raised)
  tombstones,               \* the result list
  current_tombstone,        \* the open record or None
  in_backtrace,
  parsing_logcat_tombstone,
  result,                   \* the value returned to the caller
  log,                      \* per processed line: the branch it took
  tombstones_log,           \* Dumpstate.tombstones_log
  shown,                    \* the tombstones _crash has logged
  caller_pc                 \* "parse", "parsed", "parse_raised", "shown"
                            \* or "crash_raised"

\* the variables of parse_tombstones and those of its caller
scan ==
  <<lines, idx, pc, tombstones, current_tombstone, in_backtrace,
    parsing_logcat_tombstone, result, log>>

caller == <<tombstones_log, shown, caller_pc>>

vars ==
  <<lines, idx, pc, tombstones, current_tombstone, in_backtrace,
    parsing_logcat_tombstone, result, log, tombstones_log, shown, caller_pc>>

Init ==
  /\ lines \in Inputs
  /\ idx = 1
  /\ pc = "scan"
  /\ tombstones = <<>>
  /\ current_tombstone = None
  /\ in_backtrace = FALSE
  /\ parsing_logcat_tombstone = FALSE
  /\ result = [kind |-> "pending"]
  /\ log = <<>>
  /\ tombstones_log = [kind |-> "None"]
  /\ shown = <<>>
  /\ caller_pc = "parse"

(***************************************************************************)
(* The head of the loop body, lines 96-104                                 *)
(***************************************************************************)
\* lines 96-104 for one line l
strip_logcat(l) ==
  LET line_stripped == Strip(l)
      logcat_match == logcat_prefix_pattern(line_stripped)
  IN IF logcat_match.matched
     THEN [line_content |-> Strip(logcat_match.g1), is_logcat_line |-> TRUE]
     ELSE [line_content |-> line_stripped, is_logcat_line |-> FALSE]

line == lines[idx]
is_logcat_line == strip_logcat(line).is_logcat_line
line_content == strip_logcat(line).line_content
line_content_str == Decode(line_content)

\* line 120 left out: the prefix of the line is never looked at
logcat_boundary_unchecked == FALSE

\* line 120 as a test of mismatch: a prefixed line ends a plain tombstone too
logcat_boundary_mismatch == parsing_logcat_tombstone # is_logcat_line

\* line 120: a logcat tombstone meets a line without the prefix
logcat_boundary == parsing_logcat_tombstone /\ ~is_logcat_line

HasLine == pc = "scan" /\ idx <= Len(lines)

\* what the log keeps of a line: the branch taken and the state before it
Entry(branch) ==
  [branch |-> branch, was_open |-> current_tombstone # None,
   was_in_backtrace |-> in_backtrace,
   was_logcat |-> parsing_logcat_tombstone]

NextLine(branch) ==
  /\ idx' = idx + 1
  /\ log' = Append(log, Entry(branch))
  /\ UNCHANGED <<lines, pc, result>>
  /\ UNCHANGED caller

\* an exception leaves parse_tombstones: nothing is returned
Raise ==
  /\ pc' = "error"
  /\ result' = [kind |-> "raised"]
  /\ log' = Append(log, Entry("raise"))
  /\ UNCHANGED <<lines, idx>>
  /\ UNCHANGED caller

\* lines 166 and 194 swapped: stack: is tested before the frame pattern
is_frame_line_after_stack ==
  /\ backtrace_pattern(line_content).matched
  /\ ~StartsWith(line_content, "stack:")

\* line 166: the frame pattern matched the line
is_frame_line == backtrace_pattern(line_content).matched

(***************************************************************************)
(* Record Segmenter, lines 106-125                                         *)
(***************************************************************************)
\* lines 107-113 without line 111: the backtrace state is not reset
StartTombstoneKeepsBacktrace ==
  /\ pc = "scan" /\ idx <= Len(lines)
  /\ tombstone_start_pattern(line_content)
  /\ tombstones' = IF current_tombstone # None
                   THEN Append(tombstones, current_tombstone)
                   ELSE tombstones
  /\ current_tombstone' = Tombstone(idx)
  /\ parsing_logcat_tombstone' = is_logcat_line
  /\ idx' = idx + 1
  /\ log' = Append(log, [branch |-> "start",
                         was_open |-> current_tombstone # None,
                         was_in_backtrace |-> in_backtrace,
                         was_logcat |-> parsing_logcat_tombstone])
  /\ UNCHANGED <<lines, pc, result, in_backtrace>>
  /\ UNCHANGED caller

\* lines 107-113 with line 110 clearing the open object in place instead of
\* creating a new one
StartTombstoneReusesObject ==
  /\ pc = "scan" /\ idx <= Len(lines)
  /\ tombstone_start_pattern(line_content)
  /\ tombstones' = IF current_tombstone # None
                   THEN Append(tombstones, current_tombstone)
                   ELSE tombstones
  /\ current_tombstone' = IF current_tombstone # None
                          THEN Tombstone(current_tombstone.obj)
                          ELSE Tombstone(idx)
  /\ in_backtrace' = FALSE
  /\ parsing_logcat_tombstone' = is_logcat_line
  /\ idx' = idx + 1
  /\ log' = Append(log, [branch |-> "start",
                         was_open |-> current_tombstone # None,
                         was_in_backtrace |-> in_backtrace,
                         was_logcat |-> parsing_logcat_tombstone])
  /\ UNCHANGED <<lines, pc, result>>
  /\ UNCHANGED caller

\* lines 107-113: an anchor line closes the open record and opens a new one
StartTombstone ==
  /\ HasLine
  /\ tombstone_start_pattern(line_content)
  /\ tombstones' = IF current_tombstone # None
                   THEN Append(tombstones, current_tombstone)
                   ELSE tombstones
  /\ current_tombstone' = Tombstone(idx)
  /\ in_backtrace' = FALSE
  /\ parsing_logcat_tombstone' = is_logcat_line
  /\ NextLine("start")

\* lines 116-117: no record is open, the line is skipped
SkipLine ==
  /\ HasLine
  /\ ~tombstone_start_pattern(line_content)
  /\ current_tombstone = None
  /\ NextLine("skip")
  /\ UNCHANGED <<tombstones, current_tombstone, in_backtrace,
                 parsing_logcat_tombstone>>

\* lines 120-125 without line 122: the closed record stays the open one
StopLogcatTombstoneKeepsCurrent ==
  /\ pc = "scan" /\ idx <= Len(lines)
  /\ ~tombstone_start_pattern(line_content)
  /\ current_tombstone # None
  /\ parsing_logcat_tombstone /\ ~is_logcat_line
  /\ tombstones' = Append(tombstones, current_tombstone)
  /\ in_backtrace' = FALSE
  /\ parsing_logcat_tombstone' = FALSE
  /\ idx' = idx + 1
  /\ log' = Append(log, [branch |-> "stop", was_open |-> TRUE,
                         was_in_backtrace |-> in_backtrace,
                         was_logcat |-> TRUE])
  /\ UNCHANGED <<lines, pc, result, current_tombstone>>
  /\ UNCHANGED caller

\* lines 120-125 without lines 123-124: the two flags are not reset
StopLogcatTombstoneKeepsFlags ==
  /\ pc = "scan" /\ idx <= Len(lines)
  /\ ~tombstone_start_pattern(line_content)
  /\ current_tombstone # None
  /\ parsing_logcat_tombstone /\ ~is_logcat_line
  /\ tombstones' = Append(tombstones, current_tombstone)
  /\ current_tombstone' = None
  /\ idx' = idx + 1
  /\ log' = Append(log, [branch |-> "stop", was_open |-> TRUE,
                         was_in_backtrace |-> in_backtrace,
                         was_logcat |-> TRUE])
  /\ UNCHANGED <<lines, pc, result, in_backtrace, parsing_logcat_tombstone>>
  /\ UNCHANGED caller

\* lines 120-125: a line without the logcat prefix ends a logcat tombstone
StopLogcatTombstone ==
  /\ HasLine
  /\ ~tombstone_start_pattern(line_content)
  /\ current_tombstone # None
  /\ logcat_boundary
  /\ tombstones' = Append(tombstones, current_tombstone)
  /\ current_tombstone' = None
  /\ in_backtrace' = FALSE
  /\ parsing_logcat_tombstone' = FALSE
  /\ NextLine("stop")

\* the line reaches line 127: it is decoded for the open record
Forwarded ==
  /\ HasLine
  /\ ~tombstone_start_pattern(line_content)
  /\ current_tombstone # None
  /\ ~logcat_boundary

(***************************************************************************)
(* Field Extractor, lines 129-160                                          *)
(***************************************************************************)
\* line_content.split(b':', 1)[1].strip().decode(...) of a line that starts
\* with a label: what follows the label's colon
label_value(s) == Decode(Strip(Tail(s)))

\* line_content.split(b':')[1]: between the first and the second colon
uid_value(s) ==
  LET r == Tail(s) IN SubSeq(r, 1, Find(r, ":", 1) - 1)

\* line 138 raises ValueError
uid_raises(s) == StartsWith(s, "uid:") /\ ~int_ok(uid_value(s))

\* lines 129-140: the chain of field labels (backtrace: is BacktraceLabel)
assign_field(t, s) ==
  IF StartsWith(s, "Timestamp:") THEN [t EXCEPT !.timestamp = label_value(s)]
  ELSE IF StartsWith(s, "Build fingerprint:")
  THEN [t EXCEPT !.build_fingerprint = label_value(s)]
  ELSE IF StartsWith(s, "ABI:") THEN [t EXCEPT !.abi = label_value(s)]
  ELSE IF StartsWith(s, "Cmdline:") THEN [t EXCEPT !.cmdline = label_value(s)]
  ELSE IF StartsWith(s, "uid:") THEN [t EXCEPT !.uid = int(uid_value(s))]
  ELSE IF StartsWith(s, "Abort message:")
  THEN [t EXCEPT !.abort_message = label_value(s)]
  ELSE t

\* line 138 guarded: a malformed uid value is skipped, the scan goes on
UidSkipped ==
  /\ pc = "scan" /\ idx <= Len(lines)
  /\ ~tombstone_start_pattern(line_content)
  /\ current_tombstone # None
  /\ ~(parsing_logcat_tombstone /\ ~is_logcat_line)
  /\ uid_raises(line_content)
  /\ idx' = idx + 1
  /\ log' = Append(log, [branch |-> "field", was_open |-> TRUE,
                         was_in_backtrace |-> in_backtrace,
                         was_logcat |-> parsing_logcat_tombstone])
  /\ UNCHANGED <<lines, pc, result, tombstones, current_tombstone,
                 in_backtrace, parsing_logcat_tombstone>>
  /\ UNCHANGED caller

\* line 138: int() of a malformed uid value raises and ends the scan
UidRaises ==
  /\ Forwarded
  /\ uid_raises(line_content)
  /\ Raise
  /\ UNCHANGED <<tombstones, current_tombstone, in_backtrace,
                 parsing_logcat_tombstone>>

\* lines 141-143: the backtrace: label opens the backtrace section
BacktraceLabel ==
  /\ Forwarded
  /\ StartsWith(line_content, "backtrace:")
  /\ in_backtrace' = TRUE
  /\ NextLine("backtrace")
  /\ UNCHANGED <<tombstones, current_tombstone, parsing_logcat_tombstone>>

\* the line gets past the label chain, lines 129-143
PastLabels ==
  /\ Forwarded
  /\ ~uid_raises(line_content)
  /\ ~StartsWith(line_content, "backtrace:")

\* lines 149-150: int() of a pid or tid raises and ends the scan; a pid
\* converted at line 149 is already stored when line 150 raises
PidTidRaises ==
  /\ PastLabels
  /\ ~in_backtrace
  /\ pid_tid_pattern(line_content).matched
  /\ LET pid_match == pid_tid_pattern(line_content)
         t == assign_field(current_tombstone, line_content)
     IN /\ ~int_ok(<<pid_match.g1>>) \/ ~int_ok(<<pid_match.g2>>)
        /\ current_tombstone' =
             IF int_ok(<<pid_match.g1>>)
             THEN [t EXCEPT !.pid = int(<<pid_match.g1>>)]
             ELSE t
  /\ Raise
  /\ UNCHANGED <<tombstones, in_backtrace, parsing_logcat_tombstone>>

\* lines 147-153: the pid/tid/name line
PidTidLine ==
  /\ PastLabels
  /\ ~in_backtrace
  /\ pid_tid_pattern(line_content).matched
  /\ int_ok(<<pid_tid_pattern(line_content).g1>>)
  /\ int_ok(<<pid_tid_pattern(line_content).g2>>)
  /\ LET pid_match == pid_tid_pattern(line_content)
     IN current_tombstone' =
          [assign_field(current_tombstone, line_content) EXCEPT
             !.pid = int(<<pid_match.g1>>),
             !.tid = int(<<pid_match.g2>>),
             !.thread_name = Decode(Strip(pid_match.g3)),
             !.process_name = Decode(Strip(pid_match.g4))]
  /\ NextLine("pid")
  /\ UNCHANGED <<tombstones, in_backtrace, parsing_logcat_tombstone>>

\* lines 155-160: the signal line
SignalLine ==
  /\ PastLabels
  /\ ~in_backtrace
  /\ ~pid_tid_pattern(line_content).matched
  /\ signal_pattern(line_content).matched
  /\ LET signal_match == signal_pattern(line_content)
     IN current_tombstone' =
          [assign_field(current_tombstone, line_content) EXCEPT
             !.signal = Decode(signal_match.g1),
             !.code = Decode(signal_match.g2),
             !.fault_addr = Decode(signal_match.g3)]
  /\ NextLine("signal")
  /\ UNCHANGED <<tombstones, in_backtrace, parsing_logcat_tombstone>>

\* outside the backtrace section any other line only passes the label chain
FieldLine ==
  /\ PastLabels
  /\ ~in_backtrace
  /\ ~pid_tid_pattern(line_content).matched
  /\ ~signal_pattern(line_content).matched
  /\ current_tombstone' = assign_field(current_tombstone, line_content)
  /\ NextLine("field")
  /\ UNCHANGED <<tombstones, in_backtrace, parsing_logcat_tombstone>>

(***************************************************************************)
(* Backtrace Sub-Parser, lines 162-201                                     *)
(***************************************************************************)
\* lines 167-191: the frame built from a match
parsed_frame(match, raw) ==
  LET function_raw == IF match.has4 /\ match.g4 # <<>>
                      THEN Decode(match.g4) ELSE NoneStr
      build_id == IF match.has5 /\ match.g5 # <<>>
                  THEN Decode(match.g5) ELSE NoneStr
      parts == rsplit_plus(function_raw)
      function == IF function_raw # NoneStr THEN parts[1] ELSE NoneStr
      offset == IF function_raw # NoneStr /\ Len(parts) = 2
                THEN parts[2] ELSE NoneStr
  IN BacktraceFrame(int(<<match.g1>>), Decode(match.g2), Decode(match.g3),
                    function, offset, build_id, raw)

\* line 192 as insert(0, ...): the newest frame comes first
append_frame_first(t, f) == [t EXCEPT !.backtrace = <<f>> \o @]

append_frame(t, f) == [t EXCEPT !.backtrace = Append(@, f)]

\* line 167: int() of the frame index raises and ends the scan
FrameRaises ==
  /\ PastLabels
  /\ in_backtrace
  /\ is_frame_line
  /\ ~int_ok(<<backtrace_pattern(line_content).g1>>)
  /\ current_tombstone' = assign_field(current_tombstone, line_content)
  /\ Raise
  /\ UNCHANGED <<tombstones, in_backtrace, parsing_logcat_tombstone>>

\* lines 164-192: the line holds a frame
FrameLineStep ==
  /\ PastLabels
  /\ in_backtrace
  /\ is_frame_line
  /\ int_ok(<<backtrace_pattern(line_content).g1>>)
  /\ current_tombstone' =
       append_frame(assign_field(current_tombstone, line_content),
                    parsed_frame(backtrace_pattern(line_content),
                                 line_content_str))
  /\ NextLine("frame")
  /\ UNCHANGED <<tombstones, in_backtrace, parsing_logcat_tombstone>>

\* lines 194-196 without line 196: the section stays open
StackLineStays ==
  /\ pc = "scan" /\ idx <= Len(lines)
  /\ ~tombstone_start_pattern(line_content)
  /\ current_tombstone # None
  /\ ~(parsing_logcat_tombstone /\ ~is_logcat_line)
  /\ in_backtrace
  /\ ~backtrace_pattern(line_content).matched
  /\ StartsWith(line_content, "stack:")
  /\ idx' = idx + 1
  /\ log' = Append(log, [branch |-> "stack", was_open |-> TRUE,
                         was_in_backtrace |-> TRUE,
                         was_logcat |-> parsing_logcat_tombstone])
  /\ UNCHANGED <<lines, pc, result, tombstones, current_tombstone,
                 in_backtrace, parsing_logcat_tombstone>>
  /\ UNCHANGED caller

\* lines 194-196: stack: ends the backtrace section
StackLine ==
  /\ PastLabels
  /\ in_backtrace
  /\ ~is_frame_line
  /\ StartsWith(line_content, "stack:")
  /\ in_backtrace' = FALSE
  /\ current_tombstone' = assign_field(current_tombstone, line_content)
  /\ NextLine("stack")
  /\ UNCHANGED <<tombstones, parsing_logcat_tombstone>>

\* lines 198-201: any other non-empty line is kept as a raw frame
RawLine ==
  /\ PastLabels
  /\ in_backtrace
  /\ ~is_frame_line
  /\ ~StartsWith(line_content, "stack:")
  /\ Strip(line_content_str) # <<>>
  /\ current_tombstone' =
       append_frame(assign_field(current_tombstone, line_content),
                    RawFrame(line_content_str))
  /\ NextLine("raw")
  /\ UNCHANGED <<tombstones, in_backtrace, parsing_logcat_tombstone>>

\* line 198 is false: an empty line adds nothing
EmptyLine ==
  /\ PastLabels
  /\ in_backtrace
  /\ ~is_frame_line
  /\ ~StartsWith(line_content, "stack:")
  /\ Strip(line_content_str) = <<>>
  /\ NextLine("empty")
  /\ UNCHANGED <<tombstones, current_tombstone, in_backtrace,
                 parsing_logcat_tombstone>>

(***************************************************************************)
(* End of input, lines 203-206                                             *)
(***************************************************************************)
\* lines 203-206 without lines 203-204: the open record is not flushed
ReturnNoFlush ==
  /\ pc = "scan"
  /\ idx > Len(lines)
  /\ result' = IF tombstones # <<>>
               THEN [kind |-> "list", value |-> tombstones]
               ELSE [kind |-> "None"]
  /\ pc' = "done"
  /\ UNCHANGED <<lines, idx, tombstones, current_tombstone, in_backtrace,
                 parsing_logcat_tombstone, log>>
  /\ UNCHANGED caller

\* line 206 as "return tombstones": an empty list instead of None
ReturnEmptyList ==
  /\ pc = "scan"
  /\ idx > Len(lines)
  /\ tombstones' = IF current_tombstone # None
                   THEN Append(tombstones, current_tombstone)
                   ELSE tombstones
  /\ result' = [kind |-> "list", value |-> tombstones']
  /\ pc' = "done"
  /\ UNCHANGED <<lines, idx, current_tombstone, in_backtrace,
                 parsing_logcat_tombstone, log>>
  /\ UNCHANGED caller

Return ==
  /\ pc = "scan"
  /\ idx > Len(lines)
  /\ tombstones' = IF current_tombstone # None
                   THEN Append(tombstones, current_tombstone)
                   ELSE tombstones
  /\ result' = IF tombstones' # <<>>
               THEN [kind |-> "list", value |-> tombstones']
               ELSE [kind |-> "None"]
  /\ pc' = "done"
  /\ UNCHANGED <<lines, idx, current_tombstone, in_backtrace,
                 parsing_logcat_tombstone, log>>
  /\ UNCHANGED caller

(***************************************************************************)
(* The caller: Dumpstate.parse (__init__.py) and _crash (main.py)          *)
(***************************************************************************)
\* __init__.py line 100: the returned value is stored
ParseStores ==
  /\ caller_pc = "parse"
  /\ pc = "done"
  /\ tombstones_log' = result
  /\ caller_pc' = "parsed"
  /\ UNCHANGED shown
  /\ UNCHANGED scan

\* __init__.py line 100: the exception of parse_tombstones leaves parse
ParseRaises ==
  /\ caller_pc = "parse"
  /\ pc = "error"
  /\ caller_pc' = "parse_raised"
  /\ UNCHANGED <<tombstones_log, shown>>
  /\ UNCHANGED scan

\* main.py lines 39-40: every stored tombstone is logged
CrashShows ==
  /\ caller_pc = "parsed"
  /\ tombstones_log.kind = "list"
  /\ shown' = tombstones_log.value
  /\ caller_pc' = "shown"
  /\ UNCHANGED tombstones_log
  /\ UNCHANGED scan

\* main.py line 39: iterating None raises TypeError
CrashRaises ==
  /\ caller_pc = "parsed"
  /\ tombstones_log.kind = "None"
  /\ caller_pc' = "crash_raised"
  /\ UNCHANGED <<tombstones_log, shown>>
  /\ UNCHANGED scan

Next ==
  \/ StartTombstone
  \/ SkipLine
  \/ StopLogcatTombstone
  \/ UidRaises
  \/ BacktraceLabel
  \/ PidTidRaises
  \/ PidTidLine
  \/ SignalLine
  \/ FieldLine
  \/ FrameRaises
  \/ FrameLineStep
  \/ StackLine
  \/ RawLine
  \/ EmptyLine
  \/ Return
  \/ ParseStores
  \/ ParseRaises
  \/ CrashShows
  \/ CrashRaises

Spec == Init /\ [][Next]_vars

TypeOK ==
  /\ pc \in {"scan", "done", "error"}
  /\ idx \in 1..(Len(lines) + 1)
  /\ in_backtrace \in BOOLEAN
  /\ parsing_logcat_tombstone \in BOOLEAN
  /\ Len(log) <= Len(lines)
  /\ caller_pc \in {"parse", "parsed", "parse_raised", "shown", "crash_raised"}

(***************************************************************************)
(* Properties                                                              *)
(***************************************************************************)
\* the content of line i contains the anchor literal
IsAnchorLine(i) == tombstone_start_pattern(strip_logcat(lines[i]).line_content)
IsLogcatLine(i) == strip_logcat(lines[i]).is_logcat_line

AnchorLines == {i \in 1..Len(lines) : IsAnchorLine(i)}

\* the branches in which a line is decoded for the open record
ForwardedBranches ==
  {"backtrace", "pid", "signal", "field", "frame", "stack", "raw", "empty"}

Last(s) == s[Len(s)]

\* C1: when the scan completes, the output holds as many records as the
\* input has anchor lines (None standing for no record), and a record still
\* open at the end of the input is the last one emitted.
C1_RecordPerAnchor ==
  pc = "done" =>
    /\ Len(tombstones) = Cardinality(AnchorLines)
    /\ IF AnchorLines = {}
       THEN result = [kind |-> "None"]
       ELSE result = [kind |-> "list", value |-> tombstones]
    /\ current_tombstone # None => Last(tombstones) = current_tombstone

\* C1 witness: a completed scan of an input with several anchors, one record
\* closed by the logcat boundary and the last one flushed at the end
C1_Witness ==
  /\ pc = "done"
  /\ Cardinality(AnchorLines) >= 2
  /\ \E k \in 1..Len(log) : log[k].branch = "stop"
  /\ current_tombstone # None
  /\ Len(result.value) = Cardinality(AnchorLines)

\* the records created so far, by identity
Opened == {k \in 1..Len(log) : log[k].branch = "start"}

TimesEmitted(o) == Cardinality({k \in 1..Len(tombstones) : tombstones[k].obj = o})

IsOpen(o) == pc # "done" /\ current_tombstone # None /\ current_tombstone.obj = o

C2_OpenOrEmittedOnce ==
  \A o \in Opened : IF IsOpen(o) THEN TimesEmitted(o) = 0 ELSE TimesEmitted(o) = 1

C2_AppendedWhenClosed ==
  tombstones' # tombstones =>
    /\ current_tombstone # None
    /\ tombstones' = Append(tombstones, current_tombstone)
    /\ \/ pc' = "done"
       \/ Last(log').branch \in {"start", "stop"} /\ Len(log') = Len(log) + 1

\* C2: every record created so far is either the one open record, absent
\* from the output list, or in the output list exactly once; the list
\* changes only by appending the open record at the step that closes it
\* (next anchor, logcat boundary, end of input).
C2_EmittedExactlyOnce ==
  [][C2_OpenOrEmittedOnce /\ C2_OpenOrEmittedOnce' /\ C2_AppendedWhenClosed]_vars

\* C2 witness: one record closed by an anchor, one by the logcat boundary,
\* and a third one open
C2_Witness ==
  /\ pc = "scan"
  /\ Len(tombstones) = 2
  /\ \E k \in 1..Len(log) : log[k].branch = "stop"
  /\ current_tombstone # None
  /\ Cardinality(Opened) = 3

\* the input up to the current line is: a logcat anchor at line a, only
\* logcat non-anchor lines after it, and now a non-anchor line without the
\* prefix
LogcatBlockEndsHere(a) ==
  /\ a < idx
  /\ IsAnchorLine(a) /\ IsLogcatLine(a)
  /\ \A i \in (a + 1)..(idx - 1) : IsLogcatLine(i) /\ ~IsAnchorLine(i)
  /\ ~IsLogcatLine(idx) /\ ~IsAnchorLine(idx)

\* C3: at a line without the logcat prefix that follows a logcat anchor and
\* N logcat lines, the open record is the one of that anchor, it received
\* exactly those N lines, it is emitted unchanged and no record stays open.
C3_LogcatBoundary ==
  [][\A a \in 1..Len(lines) :
       (HasLine /\ LogcatBlockEndsHere(a)) =>
         /\ current_tombstone # None
         /\ current_tombstone.obj = a
         /\ \A i \in (a + 1)..(idx - 1) : log[i].branch \in ForwardedBranches
         /\ tombstones' = Append(tombstones, current_tombstone)
         /\ current_tombstone' = None
         /\ ~in_backtrace' /\ ~parsing_logcat_tombstone'
         /\ idx' = idx + 1]_vars

\* C3 witness: a logcat record that received two lines has just been closed
\* by a line without the prefix
C3_Witness ==
  /\ Len(log) >= 4
  /\ Last(log).branch = "stop"
  /\ log[Len(log) - 1].branch \in ForwardedBranches
  /\ log[Len(log) - 2].branch \in ForwardedBranches
  /\ log[Len(log) - 3].branch = "start"
  /\ current_tombstone = None
  /\ Last(tombstones).obj = Len(log) - 3

\* the frame appended by the step, when the step appends exactly one
AppendsOneFrame ==
  /\ current_tombstone' # None
  /\ current_tombstone'.obj = current_tombstone.obj
  /\ Len(current_tombstone'.backtrace) = Len(current_tombstone.backtrace) + 1
  /\ SubSeq(current_tombstone'.backtrace, 1, Len(current_tombstone.backtrace))
       = current_tombstone.backtrace

AppendedFrame == Last(current_tombstone'.backtrace)

AppendsNoFrame ==
  /\ current_tombstone' # None
  /\ current_tombstone'.backtrace = current_tombstone.backtrace

\* the line is decoded for the open record while the backtrace section is on
InBacktraceLine == Forwarded /\ in_backtrace

\* C4 as claimed: the frame line of the specification, processed in
\* backtrace mode, appends a frame with index 0, pc 00000000001de20c,
\* library /system/lib64/libfoo.so, function foo::bar(int), offset 552 and
\* build id abcdef12.
C4_FrameRoundTrip ==
  [][(InBacktraceLine /\ line = L_frame_c4) =>
       /\ AppendsOneFrame
       /\ AppendedFrame.frame = 0
       /\ AppendedFrame.pc = <<"00000000001de20c">>
       /\ AppendedFrame.library = <<"/system/lib64/libfoo.so">>
       /\ AppendedFrame.function = <<"foo::bar", "(", "int", ")">>
       /\ AppendedFrame.offset = <<"552">>
       /\ AppendedFrame.build_id = <<"abcdef12">>]_vars

\* the function texts of the frame lines explored
FnTexts == SeqsUpTo(FnChars, MaxFn) \ {<<>>}

\* the text before the last "+" and the text after it, None when no "+"
SplitAtLastPlus(fn) ==
  IF \E i \in 1..Len(fn) : fn[i] = "+"
  THEN LET p == CHOOSE i \in 1..Len(fn) :
                  fn[i] = "+" /\ \A j \in (i + 1)..Len(fn) : fn[j] # "+"
       IN [function |-> SubSeq(fn, 1, p - 1),
           offset |-> SubSeq(fn, p + 1, Len(fn))]
  ELSE [function |-> fn, offset |-> NoneStr]

\* C5 as claimed: a frame line with a parenthesized function text fn yields
\* the text before the last "+" as function and the text after it as
\* offset, or all of fn and no offset when fn has no "+"; (foo::bar())
\* yields function foo::bar() and no offset.
C5_FunctionOffsetSplit ==
  [][/\ \A fn \in FnTexts, bid \in BOOLEAN :
          (InBacktraceLine /\ line = FrameLine(fn, bid)) =>
            /\ AppendsOneFrame
            /\ AppendedFrame.function = SplitAtLastPlus(fn).function
            /\ AppendedFrame.offset = SplitAtLastPlus(fn).offset
     /\ (InBacktraceLine /\ line = L_frame_no_offset) =>
            /\ AppendsOneFrame
            /\ AppendedFrame.function = <<"foo::bar", "(", ")">>
            /\ AppendedFrame.offset = NoneStr]_vars

\* the line matches neither the frame pattern nor the end marker
UnparsedLine ==
  /\ ~backtrace_pattern(line_content).matched
  /\ ~StartsWith(line_content, "stack:")

\* C6 as claimed: a line decoded while the backtrace section is on that is
\* not empty, is no frame and does not start with stack: appends exactly one
\* raw frame; none is dropped.
C6_LosslessBacktrace ==
  [][(InBacktraceLine /\ UnparsedLine /\ line_content # <<>>) =>
       /\ AppendsOneFrame
       /\ AppendedFrame.frame = -1]_vars

\* C7 as claimed: a backtrace-section line that is neither a frame nor the
\* end marker is appended as a raw frame with index -1 and its trimmed text
\* as raw_line; an empty line appends no frame.
C7_RawFrameContent ==
  [][(InBacktraceLine /\ UnparsedLine) =>
       IF Strip(line_content_str) # <<>>
       THEN /\ AppendsOneFrame
            /\ AppendedFrame = RawFrame(line_content_str)
            /\ \A k \in 1..Len(current_tombstone.backtrace) :
                  current_tombstone.backtrace[k].frame # -1 =>
                    current_tombstone.backtrace[k].frame >= 0
       ELSE AppendsNoFrame]_vars

\* since the last stack: line that ended the section, the open record has
\* seen no backtrace: label
SectionEnded ==
  /\ current_tombstone # None
  /\ \E k \in (current_tombstone.obj + 1)..Len(log) :
        /\ log[k].branch = "stack"
        /\ \A j \in (k + 1)..Len(log) : log[j].branch # "backtrace"

C9_NeverRaises ==
  [][Forwarded => pc' = "scan" /\ idx' = idx + 1]_vars

\* C10: on an input without anchor line every line is skipped, nothing
\* raises, no record is ever open, and the scan returns None.
C10_NoAnchorNoRecord ==
  AnchorLines = {} =>
    /\ pc # "error"
    /\ current_tombstone = None
    /\ tombstones = <<>>
    /\ ~in_backtrace /\ ~parsing_logcat_tombstone
    /\ \A k \in 1..Len(log) : log[k].branch = "skip"
    /\ pc = "done" => Len(log) = Len(lines) /\ result = [kind |-> "None"]

\* C10 witness: a completed scan of an anchor-free input that holds a
\* malformed uid line, a logcat line and a frame-shaped line
C10_Witness ==
  /\ pc = "done"
  /\ AnchorLines = {}
  /\ \E i \in 1..Len(lines) : lines[i] = L_uid_bad
  /\ \E i \in 1..Len(lines) : lines[i] = L_logcat_cause
  /\ \E i \in 1..Len(lines) : lines[i] = L_frame
  /\ \E i \in 1..Len(lines) : lines[i] = L_backtrace
  /\ result = [kind |-> "None"]

\* the last line decoded for the record created at line a
RecordEnd(a) ==
  LET closers == {k \in (a + 1)..Len(log) : log[k].branch \in {"start", "stop"}}
  IN IF closers = {} THEN Len(log)
     ELSE (CHOOSE k \in closers : \A j \in closers : k <= j) - 1

\* the lines that gave the record created at line a a frame, in input order
FrameSources(a) ==
  LET IsSource(i) == log[i].branch \in {"frame", "raw"}
  IN SelectSeq([i \in 1..(RecordEnd(a) - a) |-> a + i], IsSource)

\* the frames are those of the source lines, in the order of the lines
FramesInLineOrder(r) ==
  LET src == FrameSources(r.obj)
  IN /\ Len(r.backtrace) = Len(src)
     /\ \A k \in 1..Len(src) :
          r.backtrace[k].raw_line =
            Decode(strip_logcat(lines[src[k]]).line_content)

\* C11: the emitted records are in the order of their anchor lines, and the
\* frames of every record, emitted or open, are in the order of the lines
\* they come from.
C11_DocumentOrder ==
  /\ \A k \in 1..Len(tombstones) :
       /\ IsAnchorLine(tombstones[k].obj)
       /\ k < Len(tombstones) => tombstones[k].obj < tombstones[k + 1].obj
       /\ FramesInLineOrder(tombstones[k])
  /\ current_tombstone # None => FramesInLineOrder(current_tombstone)
  /\ result.kind = "list" => result.value = tombstones

\* C11 witness: two records returned, one of them with two different frames
C11_Witness ==
  /\ pc = "done"
  /\ result.kind = "list"
  /\ Len(result.value) >= 2
  /\ \E k \in 1..Len(result.value) :
       /\ Len(result.value[k].backtrace) = 2
       /\ result.value[k].backtrace[1] # result.value[k].backtrace[2]

\* the scalar fields of a record
ScalarFields(t) ==
  <<t.timestamp, t.build_fingerprint, t.abi, t.cmdline, t.uid,
    t.abort_message, t.pid, t.tid, t.thread_name, t.process_name,
    t.signal, t.code, t.fault_addr>>

DefaultFields == <<<<>>, <<>>, <<>>, <<>>, 0, <<>>, 0, 0, <<>>, <<>>, <<>>, <<>>, <<>>>>

\* C13 as claimed: a line decoded while the backtrace section is on changes
\* no scalar field of the open record.
C13_NoFieldInBacktrace ==
  [][InBacktraceLine =>
       /\ current_tombstone' # None
       /\ ScalarFields(current_tombstone') = ScalarFields(current_tombstone)]_vars

\* C14: an anchor line, in every state, emits the open record unchanged and
\* opens a new object with every field at its default and no frame; it sets
\* in_backtrace to false and parsing_logcat_tombstone to whether the line
\* has the logcat prefix, and the scan goes on with the next line.
C14_AnchorOpensFresh ==
  [][(HasLine /\ IsAnchorLine(idx)) =>
       /\ tombstones' = IF current_tombstone # None
                        THEN Append(tombstones, current_tombstone)
                        ELSE tombstones
       /\ current_tombstone' # None
       /\ ScalarFields(current_tombstone') = DefaultFields
       /\ current_tombstone'.backtrace = <<>>
       /\ current_tombstone # None =>
            current_tombstone'.obj # current_tombstone.obj
       /\ \A k \in 1..Len(tombstones') :
            tombstones'[k].obj # current_tombstone'.obj
       /\ ~in_backtrace'
       /\ parsing_logcat_tombstone' = IsLogcatLine(idx)
       /\ pc' = "scan" /\ idx' = idx + 1]_vars

\* C14 witness: an anchor line that also starts with a field label has just
\* replaced a logcat record that was in its backtrace section and had frames
C14_Witness ==
  /\ pc = "scan"
  /\ Len(log) >= 2
  /\ Last(log).branch = "start"
  /\ lines[Len(log)] = L_anchor_timestamp
  /\ Last(log).was_in_backtrace /\ Last(log).was_logcat
  /\ Last(tombstones).backtrace # <<>>
  /\ current_tombstone = Tombstone(Len(log))
  /\ ~in_backtrace /\ ~parsing_logcat_tombstone

\* C15: while the open record is one created by an anchor line without the
\* logcat prefix, every non-anchor line, prefixed or not, is decoded for it
\* with the prefix removed and leaves it open and the output list as it is.
C15_PlainRecordStaysOpen ==
  [][(/\ HasLine
      /\ current_tombstone # None
      /\ ~IsLogcatLine(current_tombstone.obj)
      /\ ~IsAnchorLine(idx)) =>
       /\ ~parsing_logcat_tombstone /\ ~parsing_logcat_tombstone'
       /\ Len(log') = Len(log) + 1
       /\ Last(log').branch \in ForwardedBranches \cup {"raise"}
       /\ tombstones' = tombstones
       /\ current_tombstone' # None
       /\ current_tombstone'.obj = current_tombstone.obj
       /\ (IsLogcatLine(idx) /\ Last(log').branch = "raw") =>
            /\ AppendsOneFrame
            /\ AppendedFrame.raw_line = Decode(Strip(Tail(Strip(line))))
       /\ line = L_logcat_timestamp =>
            current_tombstone'.timestamp = <<"2024-01-01">>]_vars

\* C15 witness: a record opened by a plain anchor has decoded a prefixed
\* line and a plain line and is still open
C15_Witness ==
  /\ pc = "scan"
  /\ Len(log) >= 3
  /\ current_tombstone # None
  /\ current_tombstone.obj = 1
  /\ ~IsLogcatLine(1)
  /\ IsLogcatLine(2) /\ log[2].branch \in ForwardedBranches
  /\ ~IsLogcatLine(3) /\ log[3].branch \in ForwardedBranches
  /\ tombstones = <<>>

\* The list holds references: element k is the object current_tombstone
\* refers to while that variable still holds the same object, and the value
\* recorded when it was appended otherwise.
Referent(k) ==
  IF current_tombstone # None /\ current_tombstone.obj = tombstones[k].obj
  THEN current_tombstone
  ELSE tombstones[k]

\* C16: no step changes a record that is in the output list, and the list
\* only grows at its end.
C16_ClosedRecordsWriteOnce ==
  [][\A k \in 1..Len(tombstones) :
       /\ k <= Len(tombstones')
       /\ Referent(k)' = Referent(k)]_vars

\* C16 witness: with a record in the output list, a later record has been
\* given a frame
C16_Witness ==
  /\ pc = "scan"
  /\ Len(tombstones) >= 1
  /\ current_tombstone # None
  /\ current_tombstone.backtrace # <<>>
  /\ \A k \in 1..Len(tombstones) : tombstones[k].obj < current_tombstone.obj

\* C17 as claimed: on an input without anchor parse_tombstones returns its
\* empty result and _crash completes without raising.
C17_NoRecordsNoError ==
  AnchorLines = {} =>
    /\ pc # "error"
    /\ caller_pc \notin {"parse_raised", "crash_raised"}
    /\ caller_pc \in {"parsed", "shown"} => tombstones_log = [kind |-> "None"]

\* the line holds a run of digits longer than int() converts, in a place
\* the scan converts: pid or tid outside the backtrace section, the frame
\* index inside it
LongDigitsConverted ==
  /\ ~StartsWith(line_content, "backtrace:")
  /\ IF in_backtrace
     THEN /\ backtrace_pattern(line_content).matched
          /\ backtrace_pattern(line_content).g1 = LONGDIGITS
     ELSE /\ pid_tid_pattern(line_content).matched
          /\ LONGDIGITS \in {pid_tid_pattern(line_content).g1,
                             pid_tid_pattern(line_content).g2}

\* an aborted scan returns nothing and goes no further
AbortedScanReturnsNothing ==
  /\ pc' = "error" =>
       /\ result' = [kind |-> "raised"]
       /\ tombstones_log' = [kind |-> "None"]
       /\ shown' = <<>>
       /\ caller_pc' \in {"parse", "parse_raised"}
  /\ pc = "error" => UNCHANGED scan

\* C18 as claimed: a malformed uid value aborts the scan, which then
\* returns no record; no other line decoded for the open record aborts it.
C18_OnlyUidAborts ==
  [][/\ Forwarded => (pc' = "error") = uid_raises(line_content)
     /\ AbortedScanReturnsNothing]_vars

\* C18 amended: a malformed uid value aborts the scan, which then returns
\* no record; the only other lines that abort it are those where the pid,
\* tid or frame index is a run of digits longer than int() converts.
C18_UidOrLongDigitsAbort ==
  [][/\ Forwarded =>
          (pc' = "error") = (uid_raises(line_content) \/ LongDigitsConverted)
     /\ AbortedScanReturnsNothing]_vars

\* C18 witness: a malformed uid line aborted the scan after a record had
\* been closed, and the caller got nothing
C18_Witness ==
  /\ pc = "error"
  /\ caller_pc = "parse_raised"
  /\ lines[idx] = L_uid_bad
  /\ Len(tombstones) >= 1
  /\ tombstones_log = [kind |-> "None"]

C20_FlagsImplyOpenRecord ==
  (in_backtrace \/ parsing_logcat_tombstone) => current_tombstone # None

\* C20 witness: the logcat boundary has just closed a record that was in
\* its backtrace section, and both flags are off
C20_Witness ==
  /\ pc = "scan"
  /\ Len(log) >= 3
  /\ Last(log).branch = "stop"
  /\ Last(log).was_in_backtrace /\ Last(log).was_logcat
  /\ current_tombstone = None
  /\ ~in_backtrace /\ ~parsing_logcat_tombstone

=============================================================================
